---- MODULE Spec2Model ----
(***************************************************************************)
(* Model of the parallel downloader in src/main.py.                        *)
(*                                                                         *)
(* Strings that the program inspects character by character (URL paths,    *)
(* file-system paths) are sequences of one-character strings, so that      *)
(* lstrip, endswith, normpath, replace, basename and join are computed     *)
(* the way the program computes them.  A URL is the record urlparse        *)
(* yields for it: scheme, netloc, path and query.                          *)
(***************************************************************************)
EXTENDS Integers, Sequences, FiniteSets, TLC

(* ------------------------------ bounds --------------------------------- *)
\* longest URL path component (in characters) explored for resolve_filepath
MaxPathLen == 7
\* longest literal --urls list explored
MaxListLen == 2
\* largest --producers value explored
MaxWorkers == 2
\* longest --urls list given to a run of main
MaxUrls == 3

(* ------------------------- string primitives --------------------------- *)
SLASH == <<"/">>
DOTDOT == <<".", ".">>
DOT == <<".">>
UNDERSCORE == <<"_">>
DOWNLOADED_FILE == <<"downloaded_file">>
\* the value of --out used in the model (a plain relative directory name)
OUT == <<"o", "u", "t">>

startswith(s, p) == Len(s) >= Len(p) /\ SubSeq(s, 1, Len(p)) = p

endswith(s, p) == Len(s) >= Len(p) /\ SubSeq(s, Len(s) - Len(p) + 1, Len(s)) = p

\* str.lstrip("/")
RECURSIVE lstrip_slash(_)
lstrip_slash(s) ==
    IF s # <<>> /\ Head(s) = "/" THEN lstrip_slash(Tail(s)) ELSE s

\* str.rstrip("/")
RECURSIVE rstrip_slash(_)
rstrip_slash(s) ==
    IF s # <<>> /\ s[Len(s)] = "/" THEN rstrip_slash(SubSeq(s, 1, Len(s) - 1)) ELSE s

\* str.split("/"): "a//b" gives a, "", b and "" gives one empty component
RECURSIVE split_slash(_)
split_slash(s) ==
    IF \A i \in 1..Len(s) : s[i] # "/"
    THEN <<s>>
    ELSE LET i == CHOOSE k \in 1..Len(s) :
                    s[k] = "/" /\ \A j \in 1..(k - 1) : s[j] # "/"
         IN  <<SubSeq(s, 1, i - 1)>> \o split_slash(SubSeq(s, i + 1, Len(s)))

\* "/".join(comps)
RECURSIVE join_slash(_)
join_slash(comps) ==
    IF comps = <<>> THEN <<>>
    ELSE IF Len(comps) = 1 THEN comps[1]
    ELSE comps[1] \o SLASH \o join_slash(Tail(comps))

\* index of the last "/" in s, 0 when there is none (str.rfind("/") + 1)
rfind_slash(s) ==
    IF \E i \in 1..Len(s) : s[i] = "/"
    THEN CHOOSE k \in 1..Len(s) : s[k] = "/" /\ \A j \in (k + 1)..Len(s) : s[j] # "/"
    ELSE 0

\* str.replace(old, new): left to right, non-overlapping
RECURSIVE replace(_, _, _)
replace(s, old, new) ==
    IF s = <<>> THEN <<>>
    ELSE IF startswith(s, old)
         THEN new \o replace(SubSeq(s, Len(old) + 1, Len(s)), old, new)
         ELSE <<Head(s)>> \o replace(Tail(s), old, new)

(* ----------------------------- os.path --------------------------------- *)
\* os.path.join(a, b) on POSIX
os_path_join(a, b) ==
    IF startswith(b, SLASH) THEN b
    ELSE IF a = <<>> \/ endswith(a, SLASH) THEN a \o b
    ELSE a \o SLASH \o b

\* os.path.basename(p): what follows the last "/"
os_path_basename(p) == SubSeq(p, rfind_slash(p) + 1, Len(p))

\* os.path.dirname(p): what precedes the last "/", trailing slashes removed
\* unless the head is made of slashes only
os_path_dirname(p) ==
    LET head == SubSeq(p, 1, rfind_slash(p))
    IN  IF head # <<>> /\ \E i \in 1..Len(head) : head[i] # "/"
        THEN rstrip_slash(head)
        ELSE head

\* the component loop of posixpath.normpath
RECURSIVE normpath_comps(_, _, _)
normpath_comps(comps, new_comps, initial_slashes) ==
    IF comps = <<>> THEN new_comps
    ELSE LET comp == Head(comps)
             rest == Tail(comps)
         IN  IF comp = <<>> \/ comp = DOT
             THEN normpath_comps(rest, new_comps, initial_slashes)
             ELSE IF \/ comp # DOTDOT
                     \/ (~initial_slashes /\ new_comps = <<>>)
                     \/ (new_comps # <<>> /\ new_comps[Len(new_comps)] = DOTDOT)
                  THEN normpath_comps(rest, Append(new_comps, comp), initial_slashes)
                  ELSE IF new_comps # <<>>
                       THEN normpath_comps(rest, SubSeq(new_comps, 1, Len(new_comps) - 1),
                                           initial_slashes)
                       ELSE normpath_comps(rest, new_comps, initial_slashes)

\* os.path.normpath(path) on POSIX
os_path_normpath(path) ==
    IF path = <<>> THEN DOT
    ELSE LET initial_slashes == startswith(path, SLASH)
             joined == join_slash(normpath_comps(split_slash(path), <<>>, initial_slashes))
             res == IF initial_slashes
                    THEN (IF startswith(path, <<"/", "/">>) /\ ~startswith(path, <<"/", "/", "/">>)
                          THEN <<"/", "/">> ELSE SLASH) \o joined
                    ELSE joined
         IN  IF res = <<>> THEN DOT ELSE res

(* --------------------------- URL validation ---------------------------- *)
\* is_valid_url: scheme http or https and a non-empty netloc
is_valid_url(url) == url.scheme \in {"http", "https"} /\ url.netloc # ""

(* --------------------------- path resolution --------------------------- *)
\* resolve_filepath without the '..' replacement of lines 29-30
resolve_filepath_unsanitized(url, out_folder, preserve_path) ==
    IF preserve_path
    THEN LET stripped == lstrip_slash(url.path)
             path == IF stripped = <<>> \/ endswith(stripped, SLASH)
                     THEN os_path_join(stripped, DOWNLOADED_FILE)
                     ELSE stripped
         IN  os_path_join(out_folder, os_path_normpath(path))
    ELSE LET base == os_path_basename(url.path)
             filename == IF base = <<>> THEN DOWNLOADED_FILE ELSE base
         IN  os_path_join(out_folder, filename)

\* resolve_filepath(url, out_folder, preserve_path)
resolve_filepath(url, out_folder, preserve_path) ==
    IF preserve_path
    THEN LET stripped == lstrip_slash(url.path)
             path == IF stripped = <<>> \/ endswith(stripped, SLASH)
                     THEN os_path_join(stripped, DOWNLOADED_FILE)
                     ELSE stripped
             normed == os_path_normpath(path)
             safe_path == IF startswith(normed, DOTDOT)
                          THEN replace(normed, DOTDOT, UNDERSCORE)
                          ELSE normed
         IN  os_path_join(out_folder, safe_path)
    ELSE LET base == os_path_basename(url.path)
             filename == IF base = <<>> THEN DOWNLOADED_FILE ELSE base
         IN  os_path_join(out_folder, filename)

(* ------------------------------- state --------------------------------- *)
VARIABLES
    \* one call of resolve_filepath
    r_pc, r_url, r_preserve, r_path,
    \* one call of collect_urls
    c_pc, c_args, c_urls, c_invoked,
    \* one run of main with its thread pool
    mainPc, urls, arg_preserve_path, arg_skip_existing, arg_producers,
    dirs, files, fs0, made_out,
    queue, pc, outcomes, gets, writes, raised, resp

resolve_vars == <<r_pc, r_url, r_preserve, r_path>>
collect_vars == <<c_pc, c_args, c_urls, c_invoked>>
fs_vars == <<dirs, files>>
task_vars == <<queue, pc, outcomes, gets, writes, raised, resp>>
main_vars == <<mainPc, urls, arg_preserve_path, arg_skip_existing, arg_producers, fs0, made_out,
               fs_vars, task_vars>>
vars == <<resolve_vars, collect_vars, main_vars>>

(* ------------------------------ URLs ----------------------------------- *)
Url(scheme, netloc, path, query) ==
    [scheme |-> scheme, netloc |-> netloc, path |-> path, query |-> query]

\* http://x/a?1 and http://x/a?2: two URLs with the same path component
URL_A1 == Url("http", "x", <<"/", "a">>, "1")
URL_A2 == Url("http", "x", <<"/", "a">>, "2")
\* https://x/a/b: its mirrored path lies below the mirrored path of /a
URL_AB == Url("https", "x", <<"/", "a", "/", "b">>, "")
\* ftp://x/a and http:///a are rejected by is_valid_url
URL_FTP == Url("ftp", "x", <<"/", "a">>, "")
URL_NOHOST == Url("http", "", <<"/", "a">>, "")

BoundedSeq(S, n) == UNION {[1..k -> S] : k \in 0..n}

(* ------------------------- source extractors --------------------------- *)
\* an input option of the command line: whether it was given, and the
\* candidate strings its document (list, file, stream, column, tree,
\* sitemap) holds
Source(given, items) == [given |-> given, items |-> items]
Absent == Source(FALSE, <<>>)

Items(seq) == {seq[i] : i \in 1..Len(seq)}

\* {u for u in args.urls if is_valid_url(u)} with every candidate kept
literal_urls_unfiltered(items) == Items(items)

\* {u for u in args.urls if is_valid_url(u)}
literal_urls(items) == {u \in Items(items) : is_valid_url(u)}

load_from_file_lines(items) == {u \in Items(items) : is_valid_url(u)}

load_from_stdin(items) == {u \in Items(items) : is_valid_url(u)}

load_from_csv(items) == {u \in Items(items) : is_valid_url(u)}

load_from_json(items) == {u \in Items(items) : is_valid_url(u)}

load_from_sitemap(items) == {u \in Items(items) : is_valid_url(u)}

SourceNames == <<"urls", "file", "stdin", "csv", "json", "sitemap">>

\* the condition of each "if args.<source>:" of collect_urls
is_active(args, name) ==
    IF name = "urls"
    THEN args[name].given /\ args[name].items # <<>>
    ELSE args[name].given

\* the set each "urls |= ..." statement of collect_urls adds
extract(args, name) ==
    CASE name = "urls" -> literal_urls(args.urls.items)
      [] name = "file" -> load_from_file_lines(args.file.items)
      [] name = "stdin" -> load_from_stdin(args.stdin.items)
      [] name = "csv" -> load_from_csv(args.csv.items)
      [] name = "json" -> load_from_json(args.json.items)
      [] name = "sitemap" -> load_from_sitemap(args.sitemap.items)

\* collect_urls from its k-th "if" on, with acc accumulated so far
RECURSIVE collect_from(_, _, _)
collect_from(args, k, acc) ==
    IF k > Len(SourceNames) THEN acc
    ELSE collect_from(args, k + 1,
                      IF is_active(args, SourceNames[k])
                      THEN acc \cup extract(args, SourceNames[k])
                      ELSE acc)

\* collect_urls(args)
collect_urls(args) == collect_from(args, 1, {})

(* ---------------------------- file system ------------------------------ *)
\* the candidates of the literal lists given to main, and the valid ones
MainCandidates == {URL_A1, URL_A2, URL_AB, URL_FTP}
AllUrls == {u \in MainCandidates : is_valid_url(u)}

\* filepath and dirpath of download_and_save for every URL and both modes,
\* computed once
FilepathTable == [u \in AllUrls, b \in BOOLEAN |-> resolve_filepath(u, OUT, b)]
DirpathTable == [u \in AllUrls, b \in BOOLEAN |-> os_path_dirname(FilepathTable[u, b])]

\* the paths a run hands to the file system
TouchedPaths ==
    {OUT} \cup {FilepathTable[u, b] : u \in AllUrls, b \in BOOLEAN}
          \cup {DirpathTable[u, b] : u \in AllUrls, b \in BOOLEAN}

\* The file system is the set dirs of directories and the set files of
\* regular files with their content, both keyed by normalised path
\* relative to the working directory (no symbolic links).
FsKeyTable == [p \in TouchedPaths |-> os_path_normpath(p)]
FsKey(p) == FsKeyTable[p]

NoUrl == Url("", "", <<>>, "")
\* content of a file that was on disk before the run
OldContent == [origin |-> "preexisting", url |-> NoUrl]
\* resp.content of a successful GET of url
Body(url) == [origin |-> "download", url |-> url]

FilePaths == {f.path : f \in files}

os_path_isdir(p) == FsKey(p) \in dirs

os_path_exists(p) == FsKey(p) \in dirs \/ FsKey(p) \in FilePaths

\* p and every ancestor of p below the working directory
AncestorsTable ==
    [p \in TouchedPaths |->
        LET comps == split_slash(os_path_normpath(p))
        IN  {join_slash(SubSeq(comps, 1, k)) : k \in 1..Len(comps)}]
Ancestors(p) == AncestorsTable[p]

\* os.makedirs(p, exist_ok=True) raises when p or an ancestor is a regular file
makedirs_raises(p) == \E q \in Ancestors(p) : q \in FilePaths

\* the directories after a successful os.makedirs(p, exist_ok=True)
makedirs_dirs(p) == dirs \cup Ancestors(p)

\* open(p, "wb") raises when p is a directory or its parent is not one
open_wb_raises(p) == FsKey(p) \in dirs \/ FsKey(os_path_dirname(p)) \notin dirs

\* the files after open(p, "wb") and write(content)
write_file(p, content) ==
    {f \in files : f.path # FsKey(p)} \cup {[path |-> FsKey(p), content |-> content]}

(* ------------------------------- main ---------------------------------- *)
\* the command lines explored for main: a literal list, no other source
MainArgs(lst) ==
    [urls |-> Source(TRUE, lst), file |-> Absent, stdin |-> Absent,
     csv |-> Absent, json |-> Absent, sitemap |-> Absent]

\* the disk before the run: empty, or with out/a left by an earlier run
OUT_A == OUT \o <<"/", "a">>
InitialFs ==
    {[dirs |-> {DOT}, files |-> {}],
     [dirs |-> {DOT, OUT}, files |-> {[path |-> OUT_A, content |-> OldContent]}]}

HttpResults == {"ok", "http_error", "transport_error"}
WriteResults == {"ok", "oserror"}

RunningPcs == {"isdir", "makedirs", "check", "get", "write"}
Running == {u \in AllUrls : pc[u] \in RunningPcs}

\* filepath and dirpath of download_and_save
filepath(u) == FilepathTable[u, arg_preserve_path]
dirpath(u) == DirpathTable[u, arg_preserve_path]

IdleResolve ==
    /\ r_pc = "off" /\ r_url = NoUrl /\ r_preserve = FALSE /\ r_path = <<>>

IdleCollect ==
    /\ c_pc = 0 /\ c_args = MainArgs(<<>>) /\ c_urls = {} /\ c_invoked = {}

IdleMain ==
    /\ mainPc = "off" /\ urls = {}
    /\ arg_preserve_path = FALSE /\ arg_skip_existing = FALSE /\ arg_producers = 1
    /\ dirs = {DOT} /\ files = {} /\ fs0 = [dirs |-> {DOT}, files |-> {}]
    /\ made_out = FALSE
    /\ queue = <<>>
    /\ pc = [u \in AllUrls |-> "idle"]
    /\ outcomes = [u \in AllUrls |-> <<>>]
    /\ gets = [u \in AllUrls |-> 0]
    /\ writes = [u \in AllUrls |-> 0]
    /\ raised = [u \in AllUrls |-> FALSE]
    /\ resp = [u \in AllUrls |-> "none"]

Init ==
    /\ IdleResolve /\ IdleCollect
    /\ mainPc = "collect" /\ urls = {}
    /\ arg_preserve_path \in BOOLEAN
    /\ arg_skip_existing \in BOOLEAN
    /\ arg_producers \in 1..MaxWorkers
    /\ fs0 \in InitialFs
    /\ dirs = fs0.dirs /\ files = fs0.files
    /\ made_out = FALSE
    /\ queue = <<>>
    /\ pc = [u \in AllUrls |-> "idle"]
    /\ outcomes = [u \in AllUrls |-> <<>>]
    /\ gets = [u \in AllUrls |-> 0]
    /\ writes = [u \in AllUrls |-> 0]
    /\ raised = [u \in AllUrls |-> FALSE]
    /\ resp = [u \in AllUrls |-> "none"]

\* urls = collect_urls(args)
main_collect_urls ==
    /\ mainPc = "collect"
    /\ \E lst \in BoundedSeq(MainCandidates, MaxUrls) :
           urls' = collect_urls(MainArgs(lst))
    /\ mainPc' = "check"
    /\ UNCHANGED <<arg_preserve_path, arg_skip_existing, arg_producers, fs0, made_out,
                   fs_vars, task_vars, resolve_vars, collect_vars>>

\* if not urls: print("No URLs provided."); return
main_no_urls ==
    /\ mainPc = "check"
    /\ urls = {}
    /\ mainPc' = "returned"
    /\ UNCHANGED <<urls, arg_preserve_path, arg_skip_existing, arg_producers, fs0, made_out,
                   fs_vars, task_vars, resolve_vars, collect_vars>>

\* os.makedirs(args.out, exist_ok=True) run before the emptiness test
main_makedirs_unchecked ==
    /\ mainPc = "check"
    /\ IF makedirs_raises(OUT)
       THEN mainPc' = "crashed" /\ UNCHANGED <<dirs, made_out>>
       ELSE /\ mainPc' = (IF urls = {} THEN "returned" ELSE "submit")
            /\ dirs' = makedirs_dirs(OUT)
            /\ made_out' = TRUE
    /\ UNCHANGED <<urls, arg_preserve_path, arg_skip_existing, arg_producers, fs0,
                   files, task_vars, resolve_vars, collect_vars>>

\* os.makedirs(args.out, exist_ok=True), reached with a non-empty working set
main_makedirs ==
    /\ mainPc = "check"
    /\ urls # {}
    /\ IF makedirs_raises(OUT)
       THEN mainPc' = "crashed" /\ UNCHANGED <<dirs, made_out>>
       ELSE /\ mainPc' = "submit"
            /\ dirs' = makedirs_dirs(OUT)
            /\ made_out' = TRUE
    /\ UNCHANGED <<urls, arg_preserve_path, arg_skip_existing, arg_producers, fs0,
                   files, task_vars, resolve_vars, collect_vars>>

\* one executor.submit(download_and_save, u, ...) of the dict comprehension;
\* the set is iterated in no particular order
main_submit(u) ==
    /\ mainPc = "submit"
    /\ u \in urls
    /\ pc[u] = "idle"
    /\ pc' = [pc EXCEPT ![u] = "queued"]
    /\ queue' = Append(queue, u)
    /\ mainPc' = (IF \A v \in urls \ {u} : pc[v] # "idle" THEN "wait" ELSE "submit")
    /\ UNCHANGED <<urls, arg_preserve_path, arg_skip_existing, arg_producers, fs0, made_out,
                   fs_vars, outcomes, gets, writes, raised, resp,
                   resolve_vars, collect_vars>>

\* the as_completed loop with f.result() called on each future: an exception
\* stored in a future is raised again in main
main_wait_reraising ==
    /\ mainPc = "wait"
    /\ \A u \in urls : pc[u] = "done"
    /\ mainPc' = (IF \E u \in urls : raised[u] THEN "crashed" ELSE "done")
    /\ UNCHANGED <<urls, arg_preserve_path, arg_skip_existing, arg_producers, fs0, made_out,
                   fs_vars, task_vars, resolve_vars, collect_vars>>

\* the as_completed loop and the exit of the with block (shutdown(wait=True)),
\* then print("All downloads completed.")
main_wait ==
    /\ mainPc = "wait"
    /\ \A u \in urls : pc[u] = "done"
    /\ mainPc' = "done"
    /\ UNCHANGED <<urls, arg_preserve_path, arg_skip_existing, arg_producers, fs0, made_out,
                   fs_vars, task_vars, resolve_vars, collect_vars>>

(* ------------------------ thread pool and tasks ------------------------ *)
Finish(u, outcome) ==
    /\ pc' = [pc EXCEPT ![u] = "done"]
    /\ outcomes' = [outcomes EXCEPT ![u] = Append(@, outcome)]

\* a pool thread takes the oldest work item when fewer than max_workers
\* invocations are running
worker_take(u) ==
    /\ queue # <<>>
    /\ Head(queue) = u
    /\ Cardinality(Running) < arg_producers
    /\ queue' = Tail(queue)
    /\ pc' = [pc EXCEPT ![u] = "isdir"]
    /\ UNCHANGED <<mainPc, urls, arg_preserve_path, arg_skip_existing, arg_producers, fs0,
                   made_out, fs_vars, outcomes, gets, writes, raised, resp,
                   resolve_vars, collect_vars>>

\* filepath = resolve_filepath(...); if dirpath and not os.path.isdir(dirpath)
download_and_save_isdir(u) ==
    /\ pc[u] = "isdir"
    /\ pc' = [pc EXCEPT ![u] =
                 IF dirpath(u) # <<>> /\ ~os_path_isdir(dirpath(u))
                 THEN "makedirs" ELSE "check"]
    /\ UNCHANGED <<mainPc, urls, arg_preserve_path, arg_skip_existing, arg_producers, fs0,
                   made_out, fs_vars, queue, outcomes, gets, writes, raised, resp,
                   resolve_vars, collect_vars>>

\* os.makedirs(dirpath, exist_ok=True), outside the try block: an exception
\* leaves download_and_save and is stored in the future
download_and_save_makedirs(u) ==
    /\ pc[u] = "makedirs"
    /\ IF makedirs_raises(dirpath(u))
       THEN /\ pc' = [pc EXCEPT ![u] = "done"]
            /\ raised' = [raised EXCEPT ![u] = TRUE]
            /\ UNCHANGED dirs
       ELSE /\ pc' = [pc EXCEPT ![u] = "check"]
            /\ dirs' = makedirs_dirs(dirpath(u))
            /\ UNCHANGED raised
    /\ UNCHANGED <<mainPc, urls, arg_preserve_path, arg_skip_existing, arg_producers, fs0,
                   made_out, files, queue, outcomes, gets, writes, resp,
                   resolve_vars, collect_vars>>

\* the skip test written with os.path.isfile
skip_test_isfile(u) == arg_skip_existing /\ FsKey(filepath(u)) \in FilePaths

\* skip_existing and os.path.exists(filepath)
skip_test(u) == arg_skip_existing /\ os_path_exists(filepath(u))

\* if skip_existing and os.path.exists(filepath): print("[Skip] ..."); return
download_and_save_check(u) ==
    /\ pc[u] = "check"
    /\ IF skip_test(u)
       THEN Finish(u, "Skipped")
       ELSE pc' = [pc EXCEPT ![u] = "get"] /\ UNCHANGED outcomes
    /\ UNCHANGED <<mainPc, urls, arg_preserve_path, arg_skip_existing, arg_producers, fs0,
                   made_out, fs_vars, queue, gets, writes, raised, resp,
                   resolve_vars, collect_vars>>

\* the GET with raise_for_status() left out
get_raises_transport_only(r) == r = "transport_error"

\* requests.get raises on a transport error, raise_for_status on a non-2xx status
get_raises(r) == r # "ok"

\* resp = requests.get(url, timeout=DEFAULT_TIMEOUT); resp.raise_for_status()
download_and_save_get(u) ==
    /\ pc[u] = "get"
    /\ \E r \in HttpResults :
          /\ gets' = [gets EXCEPT ![u] = @ + 1]
          /\ resp' = [resp EXCEPT ![u] = r]
          /\ IF get_raises(r)
             THEN Finish(u, "Failed")
             ELSE pc' = [pc EXCEPT ![u] = "write"] /\ UNCHANGED outcomes
    /\ UNCHANGED <<mainPc, urls, arg_preserve_path, arg_skip_existing, arg_producers, fs0,
                   made_out, fs_vars, queue, writes, raised,
                   resolve_vars, collect_vars>>

\* with open(filepath, "wb") as f: f.write(resp.content); print("[Saved] ...")
\* an OSError is caught by the except clause
download_and_save_write(u) ==
    /\ pc[u] = "write"
    /\ \E w \in WriteResults :
          IF w = "oserror" \/ open_wb_raises(filepath(u))
          THEN Finish(u, "Failed") /\ UNCHANGED <<files, writes>>
          ELSE /\ files' = write_file(filepath(u), Body(u))
               /\ writes' = [writes EXCEPT ![u] = @ + 1]
               /\ Finish(u, "Saved")
    /\ UNCHANGED <<mainPc, urls, arg_preserve_path, arg_skip_existing, arg_producers, fs0,
                   made_out, dirs, queue, gets, raised, resp,
                   resolve_vars, collect_vars>>

MainNext ==
    \/ main_collect_urls
    \/ main_no_urls
    \/ main_makedirs
    \/ \E u \in AllUrls : main_submit(u)
    \/ main_wait

TaskNext(u) ==
    \/ worker_take(u)
    \/ download_and_save_isdir(u)
    \/ download_and_save_makedirs(u)
    \/ download_and_save_check(u)
    \/ download_and_save_get(u)
    \/ download_and_save_write(u)

Next == MainNext \/ \E u \in AllUrls : TaskNext(u)

Spec == Init /\ [][Next]_vars

\* the run does not stop while main or a pool thread can take a step: threads
\* are scheduled, and the GET ends within DEFAULT_TIMEOUT
FairSpec == Spec /\ WF_vars(Next)

(* ------------------- resolve_filepath on its own ----------------------- *)
PathChars == {"/", ".", "a"}

\* the path components of valid URLs: empty, or starting with "/"
UrlPaths == {<<>>} \cup {SLASH \o p : p \in BoundedSeq(PathChars, MaxPathLen - 1)}

ResolveUrls == {Url("http", "x", p, "") : p \in UrlPaths}

InitResolve ==
    /\ IdleCollect /\ IdleMain
    /\ r_pc = "call"
    /\ r_url \in ResolveUrls
    /\ r_preserve \in BOOLEAN
    /\ r_path = <<>>

resolve_filepath_call ==
    /\ r_pc = "call"
    /\ r_path' = resolve_filepath(r_url, OUT, r_preserve)
    /\ r_pc' = "returned"
    /\ UNCHANGED <<r_url, r_preserve, collect_vars, main_vars>>

NextResolve == resolve_filepath_call

SpecResolve == InitResolve /\ [][NextResolve]_vars

(* --------------------- collect_urls on its own ------------------------- *)
CollectCandidates == {URL_A1, URL_AB, URL_FTP, URL_NOHOST}

LiteralSources ==
    {Absent} \cup {Source(TRUE, l) : l \in BoundedSeq(CollectCandidates, MaxListLen)}

CollectArgs ==
    [urls : LiteralSources,
     file : {Absent, Source(TRUE, <<URL_A1, URL_FTP>>), Source(TRUE, <<URL_AB>>)},
     stdin : {Absent, Source(TRUE, <<>>), Source(TRUE, <<URL_AB, URL_NOHOST>>)},
     csv : {Absent, Source(TRUE, <<URL_A1>>), Source(TRUE, <<URL_FTP>>)},
     json : {Absent, Source(TRUE, <<URL_AB, URL_AB>>), Source(TRUE, <<URL_NOHOST>>)},
     sitemap : {Absent, Source(TRUE, <<URL_A1, URL_AB>>), Source(TRUE, <<>>)}]

AtReturn == Len(SourceNames) + 1
Returned == Len(SourceNames) + 2

InitCollect ==
    /\ IdleResolve /\ IdleMain
    /\ c_pc = 1
    /\ c_args \in CollectArgs
    /\ c_urls = {}
    /\ c_invoked = {}

\* the k-th "if args.<source>: urls |= ..." of collect_urls
collect_urls_step(k) ==
    /\ c_pc = k
    /\ k \in 1..Len(SourceNames)
    /\ IF is_active(c_args, SourceNames[k])
       THEN /\ c_urls' = c_urls \cup extract(c_args, SourceNames[k])
            /\ c_invoked' = c_invoked \cup {SourceNames[k]}
       ELSE UNCHANGED <<c_urls, c_invoked>>
    /\ c_pc' = k + 1
    /\ UNCHANGED <<c_args, resolve_vars, main_vars>>

\* return urls
collect_urls_return ==
    /\ c_pc = AtReturn
    /\ c_pc' = Returned
    /\ UNCHANGED <<c_args, c_urls, c_invoked, resolve_vars, main_vars>>

NextCollect ==
    \/ \E k \in 1..Len(SourceNames) : collect_urls_step(k)
    \/ collect_urls_return

SpecCollect == InitCollect /\ [][NextCollect]_vars

(* ------------------------------ claims --------------------------------- *)
Components(p) == {split_slash(p)[i] : i \in 1..Len(split_slash(p))}
LastComponent(p) == split_slash(p)[Len(split_slash(p))]
InsideOut(p) == startswith(os_path_normpath(p), OUT \o SLASH)
InsideOrOut(p) == os_path_normpath(p) = OUT \/ InsideOut(p)
FailedResp == {"http_error", "transport_error"}

\* C1: whenever main has reported completion of a run with fewer workers
\* than URLs, every URL of the working set has exactly one outcome among
\* Saved, Skipped and Failed, and no URL ever has two.
C1_EveryUrlExactlyOneOutcome ==
    /\ \A u \in AllUrls : Len(outcomes[u]) <= 1
    /\ (mainPc = "done" /\ arg_producers >= 1 /\ arg_producers < Cardinality(urls))
          => \A u \in urls : /\ Len(outcomes[u]) = 1
                             /\ outcomes[u][1] \in {"Saved", "Skipped", "Failed"}

\* C2: with skip-existing set, of two distinct URLs resolving to the same
\* path exactly one issues the GET and writes the file and the other is
\* skipped without a GET or a write (stated for runs where that path was
\* not on disk before the run and neither invocation failed).
C2_SamePathExactlyOneDownloads ==
    (mainPc = "done" /\ arg_skip_existing) =>
        \A u \in urls : \A v \in urls :
            ( /\ u # v
              /\ filepath(u) = filepath(v)
              /\ FsKey(filepath(u)) \notin {f.path : f \in fs0.files}
              /\ ~os_path_isdir(filepath(u))
              /\ \A x \in {u, v} : ~raised[x] /\ outcomes[x] # <<"Failed">> )
            => LET got(x) == gets[x] = 1 /\ writes[x] = 1
                   skipped(x) == outcomes[x] = <<"Skipped">> /\ gets[x] = 0 /\ writes[x] = 0
               IN  (got(u) /\ skipped(v)) \/ (got(v) /\ skipped(u))

\* C3: an invocation whose existence check runs with skip_existing set and
\* the resolved path present ends there with the Skipped outcome, having
\* issued no GET and written nothing, and the check leaves the disk unchanged.
C3_SkipExistingNoGetNoWrite ==
    [][\A u \in AllUrls :
          (pc[u] = "check" /\ pc'[u] # "check"
             /\ arg_skip_existing /\ os_path_exists(filepath(u)))
          => /\ pc'[u] = "done"
             /\ outcomes'[u] = <<"Skipped">>
             /\ gets'[u] = 0 /\ writes'[u] = 0 /\ ~raised'[u]
             /\ files' = files /\ dirs' = dirs]_vars

\* C3 witness: an invocation was skipped because its path was a file on disk
C3_Witness ==
    \E u \in urls : /\ arg_skip_existing /\ outcomes[u] = <<"Skipped">>
                    /\ FsKey(filepath(u)) \in FilePaths

\* C4: in preserve-path mode the returned path starts with out_root/, none
\* of its segments is '..', and with its dot segments resolved it is
\* out_root or lies below it.
C4_PreservePathInsideRoot ==
    (r_pc = "returned" /\ r_preserve) =>
        /\ startswith(r_path, OUT \o SLASH)
        /\ DOTDOT \notin Components(r_path)
        /\ InsideOrOut(r_path)

\* C4 witness: a URL path whose normalised form still starts with '..'
\* was resolved, and the replacement acted
C4_Witness ==
    /\ r_pc = "returned" /\ r_preserve
    /\ startswith(os_path_normpath(lstrip_slash(r_url.path)), DOTDOT)
    /\ DOTDOT \in Components(r_url.path)
    /\ UNDERSCORE \in Components(r_path)

\* C5: in flat mode the component joined onto out_root is never '..' and
\* the returned path, with its dot segments resolved, lies below out_root.
C5_FlatComponentNeverDotDot ==
    (r_pc = "returned" /\ ~r_preserve) =>
        /\ os_path_basename(r_path) # DOTDOT
        /\ InsideOrOut(r_path)

\* C6: in both modes the returned path is out_root followed by a real file
\* name: its last component is not empty, '.' or '..', it does not denote
\* out_root itself, and a URL path that is empty or ends in '/' gives the
\* last component 'downloaded_file'.
C6_ResolvedPathNamesAFile ==
    (r_pc = "returned") =>
        /\ startswith(r_path, OUT \o SLASH)
        /\ LastComponent(r_path) \notin {<<>>, DOT, DOTDOT}
        /\ os_path_normpath(r_path) # OUT
        /\ (r_url.path = <<>> \/ endswith(r_url.path, SLASH))
              => LastComponent(r_path) = DOWNLOADED_FILE

\* C7: completion is reported only when every submitted invocation has
\* finished; every run reaches the completion report or the empty-set
\* return; and once an invocation has failed or raised, all invocations of
\* the working set still finish and the completion report is reached.
C7_CompletionAfterAllFinished ==
    /\ [](mainPc = "done" => \A u \in urls : pc[u] = "done")
    /\ <>(mainPc \in {"done", "returned"})
    /\ ((\E v \in AllUrls : raised[v] \/ outcomes[v] = <<"Failed">>)
           ~> (mainPc = "done" /\ \A u \in urls : pc[u] = "done"))

\* C7 witness: completion reported after one invocation raised, one failed
\* and one saved its file
C7_Witness ==
    /\ mainPc = "done"
    /\ \E v \in urls : raised[v]
    /\ \E v \in urls : outcomes[v] = <<"Failed">>
    /\ \E u \in urls : outcomes[u] = <<"Saved">>

C9_EmptyWorkingSetNoSideEffects ==
    /\ mainPc = "returned"
          => /\ urls = {}
             /\ ~made_out
             /\ dirs = fs0.dirs /\ files = fs0.files
             /\ queue = <<>>
             /\ \A u \in AllUrls : pc[u] = "idle" /\ gets[u] = 0 /\ writes[u] = 0
    /\ (made_out \/ queue # <<>> \/ \E u \in AllUrls : pc[u] # "idle") => urls # {}

\* C9 witness: main returned on an empty working set with no output
\* directory on disk
C9_Witness == mainPc = "returned" /\ urls = {} /\ OUT \notin dirs

\* C10: during collect_urls every member of the accumulated set is a valid
\* URL and only extractors whose input was supplied have been invoked; the
\* returned set is the union of the valid candidates of the supplied
\* inputs (so it is the same for every run over the same inputs), and the
\* literal list [a, a] alone gives a set of size 1.
C10_WorkingSetIsUnionOfSupplied ==
    LET supplied == {n \in Items(SourceNames) : c_args[n].given}
        expected == UNION {{u \in Items(c_args[n].items) :
                              u.scheme \in {"http", "https"} /\ u.netloc # ""} :
                           n \in supplied}
    IN  c_pc >= 1 =>
          /\ \A u \in c_urls : u.scheme \in {"http", "https"} /\ u.netloc # ""
          /\ c_invoked \subseteq supplied
          /\ c_urls \subseteq expected
          /\ c_pc = Returned =>
                /\ c_urls = expected
                /\ c_urls = collect_urls(c_args)
                /\ (supplied = {"urls"} /\ c_args.urls.items = <<URL_A1, URL_A1>>)
                      => Cardinality(c_urls) = 1

\* C10 witness: the literal list [a, a] and a file that also names a were
\* collected, with the csv input absent
C10_Witness ==
    /\ c_pc = Returned
    /\ c_args.urls.items = <<URL_A1, URL_A1>>
    /\ c_args.file.items = <<URL_A1, URL_FTP>>
    /\ ~c_args.csv.given
    /\ c_urls = {URL_A1}

====
